---- MODULE Spec2Model ----
(***************************************************************************)
(* A model of translation_converter.py: the key matcher                    *)
(* (find_matching_key), the translation merger (process_translations),     *)
(* the slot filter (remove_slots and the slotOrder comprehensions) and     *)
(* the export orchestrator (main).                                         *)
(*                                                                         *)
(* Python strings are TLA+ strings, handled character by character with    *)
(* Len, SubSeq and \o.  A Python dict is a sequence of [k, v] entries in   *)
(* insertion order with distinct keys; a Python object lives in `heap` so  *)
(* that a copy and an alias are different things.                          *)
(***************************************************************************)
EXTENDS Integers, Sequences, FiniteSets, TLC

(***************************************************************************)
(* Strings                                                                 *)
(***************************************************************************)

UpperLetters == "ABCDEFGHIJKLMNOPQRSTUVWXYZ"

LowerLetters == "abcdefghijklmnopqrstuvwxyz"

\* upper-case letter -> lower-case letter
LowerMap ==
    [c \in {SubSeq(UpperLetters, i, i) : i \in 1..Len(UpperLetters)} |->
        LET i == CHOOSE j \in 1..Len(UpperLetters) : SubSeq(UpperLetters, j, j) = c
        IN  SubSeq(LowerLetters, i, i)]

\* str.lower() on one character
LowerChar(c) == IF c \in DOMAIN LowerMap THEN LowerMap[c] ELSE c

RECURSIVE Lower(_)
\* str.lower()
Lower(s) == IF s = "" THEN "" ELSE LowerChar(SubSeq(s, 1, 1)) \o Lower(Tail(s))

\* the characters str.strip() and the regex class \s remove
IsSpace(c) == c \in {" ", "\t", "\n", "\r"}

RECURSIVE LStrip(_)
LStrip(s) == IF s # "" /\ IsSpace(SubSeq(s, 1, 1)) THEN LStrip(Tail(s)) ELSE s

RECURSIVE RStrip(_)
RStrip(s) ==
    IF s # "" /\ IsSpace(SubSeq(s, Len(s), Len(s)))
    THEN RStrip(SubSeq(s, 1, Len(s) - 1))
    ELSE s

\* str.strip()
Strip(s) == RStrip(LStrip(s))

\* str.startswith(p)
StartsWith(s, p) == Len(s) >= Len(p) /\ SubSeq(s, 1, Len(p)) = p

\* s[i:] (i counted from 1)
From(s, i) == SubSeq(s, i, Len(s))

\* the text p stands at position i of s
At(s, i, p) == i >= 1 /\ i + Len(p) - 1 <= Len(s) /\ SubSeq(s, i, i + Len(p) - 1) = p

\* `sub in s`
Contains(s, sub) == \E i \in 1..(Len(s) + 1) : At(s, i, sub)

\* the least index of a non-empty set of indices
MinIndex(S) == CHOOSE i \in S : \A j \in S : i <= j

RECURSIVE Replace(_, _, _)
\* str.replace(old, new): left to right, non-overlapping (old is not empty)
Replace(s, old, new) ==
    LET hits == {i \in 1..Len(s) : At(s, i, old)}
    IN  IF hits = {} THEN s
        ELSE LET i == MinIndex(hits)
             IN  SubSeq(s, 1, i - 1) \o new
                     \o Replace(From(s, i + Len(old)), old, new)

(***************************************************************************)
(* Values, dicts and spreadsheet cells                                     *)
(***************************************************************************)

\* a JSON string value
StrVal(s) == [type |-> "str", str |-> s, list |-> <<>>]

\* a JSON array value (a slotOrder)
ListVal(l) == [type |-> "list", str |-> "", list |-> l]

\* isinstance(value, str)
IsStr(v) == v.type = "str"

\* Python's None and a returned key
None == <<>>

Some(k) == <<k>>

\* dict.keys(), as a set
Keys(d) == {d[i].k : i \in 1..Len(d)}

\* `k in d`
HasKey(d, k) == k \in Keys(d)

\* d[k]
DictGet(d, k) == d[CHOOSE i \in 1..Len(d) : d[i].k = k].v

\* d[k] = v: an existing key keeps its place, a new key goes last
DictSet(d, k, v) ==
    IF HasKey(d, k)
    THEN [i \in 1..Len(d) |-> IF d[i].k = k THEN [k |-> k, v |-> v] ELSE d[i]]
    ELSE Append(d, [k |-> k, v |-> v])

\* a spreadsheet cell: a string, or pandas' NaN for an empty cell
Cell(s) == [nan |-> FALSE, s |-> s]

NaN == [nan |-> TRUE, s |-> ""]

\* pd.isna(x)
IsNa(c) == c.nan

\* str(x)
Str(c) == IF c.nan THEN "nan" ELSE c.s

(***************************************************************************)
(* read_excel_file                                                         *)
(***************************************************************************)

RECURSIVE SelectRows(_)
\* dropna on English, then the rows whose stripped English is not empty
SelectRows(sheet) ==
    IF sheet = <<>> THEN <<>>
    ELSE LET r == Head(sheet)
         IN  IF IsNa(r.English) \/ Strip(Str(r.English)) = ""
             THEN SelectRows(Tail(sheet))
             ELSE <<r>> \o SelectRows(Tail(sheet))

\* the DataFrame read_excel_file returns for a readable sheet
read_excel_file(sheet) ==
    LET kept == SelectRows(sheet)
    IN  [i \in 1..Len(kept) |->
            [English     |-> Cell(Strip(Str(kept[i].English))),
             Translation |-> Cell(Strip(IF IsNa(kept[i].Translation)
                                        THEN ""
                                        ELSE Str(kept[i].Translation)))]]

(***************************************************************************)
(* find_matching_key                                                       *)
(***************************************************************************)

Placeholders == {"[video]", "enter copy", "content/copy en"}

StripSpan(s) == Replace(Replace(s, "<span>", ""), "</span>", "")

\* what both passes do to a table value
NormalizeValue(s) == StripSpan(Replace(s, "&nbsp;", " "))

\* what both passes do to the spreadsheet text
NormalizeEnglish(s) == StripSpan(s)

\* the first loop: the first key, in dict order, whose normalized string
\* value equals the normalized text
ExactPass(text, d) ==
    LET hits == {i \in 1..Len(d) :
                    /\ IsStr(d[i].v)
                    /\ NormalizeValue(d[i].v.str) = NormalizeEnglish(text)}
    IN  IF hits = {} THEN None ELSE Some(d[MinIndex(hits)].k)

\* the second loop: the same with both sides in lower case
CaseInsensitivePass(text, d) ==
    LET hits == {i \in 1..Len(d) :
                    /\ IsStr(d[i].v)
                    /\ Lower(NormalizeValue(d[i].v.str)) = Lower(NormalizeEnglish(text))}
    IN  IF hits = {} THEN None ELSE Some(d[MinIndex(hits)].k)

\* a faulty variant of IsRejected: the placeholder phrases are not rejected
IsRejectedEmptyOnly(text) == text = ""

IsRejected(text) == text = "" \/ Lower(text) \in Placeholders

\* a faulty variant of find_matching_key: the case-insensitive pass runs first
find_matching_key_ci_first(english_text, d) ==
    IF IsNa(english_text) THEN None
    ELSE LET text == Strip(Str(english_text))
             ci   == CaseInsensitivePass(text, d)
         IN  IF IsRejected(text) THEN None
             ELSE IF ci # None THEN ci
             ELSE ExactPass(text, d)

find_matching_key(english_text, d) ==
    IF IsNa(english_text) THEN None
    ELSE LET text == Strip(Str(english_text))
             exact == ExactPass(text, d)
         IN  IF IsRejected(text) THEN None
             ELSE IF exact # None THEN exact
             ELSE CaseInsensitivePass(text, d)

(***************************************************************************)
(* process_translations: one iteration of the loop over df.iterrows()      *)
(***************************************************************************)

\* `if key:`
Truthy(key) == key # None /\ key[1] # ""

\* the two `continue` guards
RowSkipped(row) ==
    \/ IsNa(row.English) \/ IsNa(row.Translation)
    \/ Strip(Str(row.English)) = ""
    \/ Strip(Str(row.Translation)) = ""
    \/ Lower(Strip(Str(row.Translation))) = "nan"

\* a faulty variant of OriginalValue: the value already overwritten in the copy
OverwrittenValue(src, trans, k) == DictGet(trans, k).str

\* source_json[key]
OriginalValue(src, trans, k) == DictGet(src, k).str

\* the text stored for a resolved row
StoredText(src, trans, k, translation) ==
    IF Contains(OriginalValue(src, trans, k), "&nbsp;")
    THEN Replace(translation, " ", "&nbsp;")
    ELSE translation

\* the key a row that is not skipped resolves to
RowKey(src, row) == find_matching_key(Cell(Strip(Str(row.English))), src)

\* translations after the `if key:` block of a row that is not skipped
RowStore(src, trans, row, k) ==
    IF Truthy(k)
    THEN DictSet(trans, k[1],
                 StrVal(StoredText(src, trans, k[1], Strip(Str(row.Translation)))))
    ELSE trans

\* translations after one iteration over `row`
RowUpdate(src, trans, row) ==
    IF RowSkipped(row) THEN trans ELSE RowStore(src, trans, row, RowKey(src, row))

RECURSIVE MergeRows(_, _, _)
MergeRows(src, trans, df) ==
    IF df = <<>> THEN trans
    ELSE MergeRows(src, RowUpdate(src, trans, Head(df)), Tail(df))

\* the table process_translations returns
process_translations(df, src) == MergeRows(src, src, df)

(***************************************************************************)
(* remove_slots: re.sub of three patterns built from each slot id.  The    *)
(* slot id is pasted into the pattern unescaped, so it is read as a regular *)
(* expression; the ids handled here are made of literal characters and of  *)
(* ".", which matches any character (but a newline unless DOTALL is set).  *)
(***************************************************************************)

Digits == "0123456789"

\* the characters of the regex class \w
WordChars ==
    {SubSeq(UpperLetters, i, i) : i \in 1..Len(UpperLetters)}
        \cup {SubSeq(LowerLetters, i, i) : i \in 1..Len(LowerLetters)}
        \cup {SubSeq(Digits, i, i) : i \in 1..Len(Digits)}
        \cup {"_"}

\* s[i], or "" outside s
Ch(s, i) == IF i >= 1 /\ i <= Len(s) THEN SubSeq(s, i, i) ELSE ""

\* \b at position i, where s[i] is a word character
WordStartsAt(s, i) == Ch(s, i - 1) \notin WordChars

\* the least index >= from where sub stands in s, or 0
IndexFrom(s, sub, from) ==
    LET hits == {i \in from..Len(s) : At(s, i, sub)}
    IN  IF hits = {} THEN 0 ELSE MinIndex(hits)

\* the pattern pat (literals and ".") matches s at position i
PatAt(s, i, pat, dotall) ==
    /\ i >= 1 /\ i + Len(pat) - 1 <= Len(s)
    /\ \A c \in 1..Len(pat) :
          \/ Ch(pat, c) = Ch(s, i + c - 1)
          \/ Ch(pat, c) = "." /\ (dotall \/ Ch(s, i + c - 1) # "\n")

\* the greatest element of a non-empty set of indices
MaxIndex(S) == CHOOSE i \in S : \A j \in S : j <= i

\* <article[^>]*\bid="slot_id"[^>]*>.*?</article> with DOTALL, tried at
\* position i: the index of the last character matched, or 0
ArticleEnd(s, i, slot_id) ==
    IF ~At(s, i, "<article") THEN 0
    ELSE LET a    == i + 8
             gt   == IndexFrom(s, ">", a)
             last == IF gt = 0 THEN Len(s) ELSE gt
             \* the match with id=" tried at position j
             EndFor(j) ==
                 IF /\ At(s, j, "id=\"") /\ WordStartsAt(s, j)
                    /\ PatAt(s, j + 4, slot_id, TRUE)
                    /\ At(s, j + 4 + Len(slot_id), "\"")
                 THEN LET k == IndexFrom(s, ">", j + 5 + Len(slot_id))
                          c == IF k = 0 THEN 0 ELSE IndexFrom(s, "</article>", k + 1)
                      IN  IF c = 0 THEN 0 ELSE c + 9
                 ELSE 0
             good == {j \in a..last : EndFor(j) # 0}
         IN  \* the greedy [^>]* is tried longest first
             IF good = {} THEN 0 ELSE EndFor(MaxIndex(good))

\* <tag[^>]*>([^<]*#slot_id[\s,{][^<]*)</tag> tried at position i, for the
\* tags style and noscript: the index of the last character matched, or 0
RuleBlockEnd(s, i, tag, slot_id) ==
    IF ~At(s, i, "<" \o tag) THEN 0
    ELSE LET k == IndexFrom(s, ">", i + 1 + Len(tag))
             lt   == IF k = 0 THEN 0 ELSE IndexFrom(s, "<", k + 1)
             last == IF lt = 0 THEN Len(s) ELSE lt
             EndFor(p) ==
                 IF /\ Ch(s, p) = "#"
                    /\ PatAt(s, p + 1, slot_id, FALSE)
                    /\ LET d == Ch(s, p + 1 + Len(slot_id))
                       IN  IsSpace(d) \/ d \in {",", "{"}
                 THEN LET m == IndexFrom(s, "<", p + 2 + Len(slot_id))
                      IN  IF m # 0 /\ At(s, m, "</" \o tag \o ">")
                          THEN m + Len(tag) + 2
                          ELSE 0
                 ELSE 0
             good == IF k = 0 THEN {} ELSE {p \in (k + 1)..last : EndFor(p) # 0}
         IN  IF good = {} THEN 0 ELSE EndFor(MaxIndex(good))

\* the end of the match of pattern `kind` at position i, or 0
MatchEnd(kind, s, i, slot_id) ==
    IF kind = "article" THEN ArticleEnd(s, i, slot_id)
    ELSE RuleBlockEnd(s, i, kind, slot_id)

RECURSIVE SubFrom(_, _, _, _)
\* re.sub(pattern, '', s) from position i on: leftmost matches, left to right
SubFrom(kind, s, i, slot_id) ==
    LET starts == {j \in i..Len(s) : MatchEnd(kind, s, j, slot_id) # 0}
    IN  IF starts = {} THEN From(s, i)
        ELSE LET j == MinIndex(starts)
             IN  SubSeq(s, i, j - 1)
                     \o SubFrom(kind, s, MatchEnd(kind, s, j, slot_id) + 1, slot_id)

\* the body of `for slot_id in slot_ids`
RemoveSlot(html, slot_id) ==
    LET a == SubFrom("article", html, 1, slot_id)
        b == SubFrom("style", a, 1, slot_id)
    IN  SubFrom("noscript", b, 1, slot_id)

RECURSIVE RemoveEach(_, _)
RemoveEach(html, ids) ==
    IF ids = <<>> THEN html ELSE RemoveEach(RemoveSlot(html, Head(ids)), Tail(ids))

remove_slots(html, ids) == IF ids = <<>> THEN html ELSE RemoveEach(html, ids)

\* a faulty variant of FilterSlotOrder: empty entries are kept
FilterSlotOrderKeepEmpty(order, ids) ==
    LET Keep(slot) == \A i \in 1..Len(ids) : ids[i] # slot
    IN  SelectSeq(order, Keep)

\* [slot for slot in order if slot and slot not in slot_ids]
FilterSlotOrder(order, ids) ==
    LET Keep(slot) == slot # "" /\ \A i \in 1..Len(ids) : ids[i] # slot
    IN  SelectSeq(order, Keep)

(***************************************************************************)
(* State                                                                   *)
(***************************************************************************)

VARIABLES
    pc,                 \* where the running function stands
    \* find_matching_key and process_translations
    heap,               \* reference -> dict object
    source_json,        \* reference of the table passed in (0: none yet)
    translations,       \* reference of the dict being built (0: none yet)
    english_text,       \* argument of the last direct find_matching_key call
    match,              \* its result
    row,                \* the row of the current iteration
    key,                \* the local `key` of process_translations
    updated_count,
    n,                  \* iterations of the running loop so far
    input_table,        \* the table as it was when the call started
    matched,            \* keys some iterated row resolved to
    \* remove_slots and main
    blocks,             \* the blocks index.html is made of
    fs,                 \* the input files, as far as the run has looked at them
    export,             \* the exportCode directory
    export_before,      \* exportCode as it was before the run, kept while the
                        \* run can still stop for a missing required file
    html_content,
    slot_ids,
    region,
    tagging_data,
    index_data,
    skip_translations,
    new_image_path,
    merger_called,      \* process_translations was called in this run
    log                 \* the diagnostics printed on an early return

mergeVars == <<heap, source_json, translations, english_text, match, row, key,
               updated_count, n, input_table, matched>>

mainVars == <<blocks, fs, export, export_before, html_content, slot_ids, region,
              tagging_data, index_data, skip_translations, new_image_path,
              merger_called, log>>

vars == <<pc, mergeVars, mainVars>>

\* a file the run has not looked at, a missing file, an existing file not yet
\* read, and a file read with content c
Unknown == [state |-> "unknown", content |-> <<>>]

Absent == [state |-> "absent", content |-> <<>>]

Unread == [state |-> "present", content |-> <<>>]

Read(c) == [state |-> "present", content |-> <<c>>]

\* exportCode: whether the directory exists, and its files (<<>>: no such file)
NoDir == [dir |-> FALSE, index_html |-> <<>>, index_json |-> <<>>,
          tagging_json |-> <<>>, translations_json |-> <<>>]

EmptyDir == [NoDir EXCEPT !.dir = TRUE]

NoHeap == [r \in 1..2 |-> <<>>]

\* what json.load made of index.json: nothing (it raised), an array, an object
NoJson == [kind |-> "none", data |-> <<>>]

Malformed == [kind |-> "malformed", data |-> <<>>]

JsonArray == [kind |-> "array", data |-> <<>>]

JsonObject(d) == [kind |-> "object", data |-> d]

NoRow == [English |-> NaN, Translation |-> NaN]

MergeIdle ==
    /\ heap = NoHeap /\ source_json = 0 /\ translations = 0
    /\ english_text = NaN /\ match = None /\ row = NoRow /\ key = None
    /\ updated_count = 0 /\ n = 0 /\ input_table = <<>> /\ matched = {}

MainIdle ==
    /\ blocks = <<>>
    /\ fs = [f \in {"excel", "image", "index", "html", "tagging", "removeSlot",
                     "region"} |-> Unknown]
    /\ export = NoDir /\ export_before = NoDir
    /\ html_content = "" /\ slot_ids = <<>> /\ region = None
    /\ tagging_data = <<>> /\ index_data = NoJson
    /\ skip_translations = FALSE /\ new_image_path = ""
    /\ merger_called = FALSE /\ log = <<>>

(***************************************************************************)
(* The matcher and the merger, called on their own                         *)
(***************************************************************************)

\* rows iterated per call
MaxRows == 2

\* string tables (index.json objects) to match against
Tables ==
    { << [k |-> "greet", v |-> StrVal("Hi&nbsp;there")],
         [k |-> "title", v |-> StrVal("Hello")] >>,
      << [k |-> "lower", v |-> StrVal("hello")],
         [k |-> "exact", v |-> StrVal("Hello")],
         [k |-> "again", v |-> StrVal("Hello")] >>,
      << [k |-> "slotOrder", v |-> ListVal(<<"a", "b">>)],
         [k |-> "cta", v |-> StrVal("<span>Hi</span>&nbsp;there")],
         [k |-> "", v |-> StrVal("Hello")] >>,
      << [k |-> "video", v |-> StrVal("[Video]")],
         [k |-> "copy", v |-> StrVal("enter copy")],
         [k |-> "none", v |-> StrVal("")] >> }

\* spreadsheet texts, as typed into a cell
EnglishTexts ==
    {"", "  ", "Hello", "hello", "HELLO", "Hi there", "Hi&nbsp;there",
     "<span>Hello</span>", "Hi <span>there</span>", "[Video]", "Enter Copy",
     "content/copy en", " Hello ", "no such text"}

\* the texts of the rows a merge iterates over
RowTexts == {"", "Hello", "hello", "Hi there", "[Video]", "no such text"}

TranslationTexts == {"", "Bonjour", "Bonjour le monde", "nan"}

\* arguments of a direct find_matching_key call
ProbeCells == {NaN} \cup {Cell(t) : t \in EnglishTexts}

\* rows of a DataFrame: trimmed strings as read_excel_file leaves them, or NaN
DfRows ==
    [English     : {NaN} \cup {Cell(Strip(t)) : t \in RowTexts},
     Translation : {NaN} \cup {Cell(Strip(t)) : t \in TranslationTexts}]

MergeInit ==
    /\ pc = "ready"
    /\ \E t \in Tables :
          /\ heap = [NoHeap EXCEPT ![1] = t]
          /\ input_table = t
    /\ source_json = 1 /\ translations = 0
    /\ english_text = NaN /\ match = None /\ row = NoRow /\ key = None
    /\ updated_count = 0 /\ n = 0 /\ matched = {}
    /\ MainIdle

\* a direct call find_matching_key(english_text, source_json)
Probe ==
    /\ pc = "ready"
    /\ \E t \in ProbeCells :
          /\ english_text' = t
          /\ match' = find_matching_key(t, heap[source_json])
    /\ pc' = "matched"
    /\ UNCHANGED <<heap, source_json, translations, row, key, updated_count,
                   n, input_table, matched, mainVars>>

\* a faulty variant of CopyTarget: no copy, the same object
AliasTarget(ref) == ref

\* the reference of the object source_json.copy() creates
CopyTarget(ref) == ref + 1

\* translations = source_json.copy(); updated_count = 0
StartMerge ==
    /\ pc = "ready"
    /\ translations' = CopyTarget(source_json)
    /\ heap' = [heap EXCEPT ![translations'] = heap[source_json]]
    /\ updated_count' = 0
    /\ pc' = "loop"
    /\ UNCHANGED <<source_json, english_text, match, row, key, n, input_table,
                   matched, mainVars>>

\* one iteration of `for _, row in df.iterrows()`
ProcessRow ==
    /\ pc = "loop"
    /\ n < MaxRows
    /\ \E r \in DfRows :
          LET src   == heap[source_json]
              trans == heap[translations]
              skip  == RowSkipped(r)
              k     == IF skip THEN key ELSE RowKey(src, r)
              hit   == ~skip /\ Truthy(k)
          IN  /\ row' = r
              /\ key' = k
              /\ heap' = IF skip THEN heap
                         ELSE [heap EXCEPT ![translations] = RowStore(src, trans, r, k)]
              /\ updated_count' = IF hit THEN updated_count + 1 ELSE updated_count
              /\ matched' = IF hit THEN matched \cup {k[1]} ELSE matched
    /\ n' = n + 1
    /\ UNCHANGED <<pc, source_json, translations, english_text, match,
                   input_table, mainVars>>

\* return translations
ReturnTranslations ==
    /\ pc = "loop"
    /\ pc' = "done"
    /\ UNCHANGED <<mergeVars, mainVars>>

MergeNext == Probe \/ StartMerge \/ ProcessRow \/ ReturnTranslations

SpecMerge == MergeInit /\ [][MergeNext]_vars

(***************************************************************************)
(* remove_slots, called on its own                                         *)
(***************************************************************************)

\* blocks per document
MaxBlocks == 2

\* the blocks a document is made of: the markup, and the ids the block
\* belongs to (the id attribute of an article, the #id selectors a style or
\* noscript block refers to)
ArticlePromo == [text |-> "<article id=\"promo\">P</article>", ids |-> {"promo"}]

ArticlePromo1 ==
    [text |-> "<article class=\"slot\" id=\"promo1\">Q</article>", ids |-> {"promo1"}]

StylePromo == [text |-> "<style>#promo {color:red}</style>", ids |-> {"promo"}]

StylePromo1 == [text |-> "<style>#promo1, #x{}</style>", ids |-> {"promo1", "x"}]

NoscriptPromo ==
    [text |-> "<noscript>#promo {display:none}</noscript>", ids |-> {"promo"}]

Paragraph == [text |-> "<p>text</p>", ids |-> {}]

ArticleNested ==
    [text |-> "<article id=\"outer\"><article id=\"inner\">I</article>O</article>",
     ids |-> {"outer"}]

ArticleDataId ==
    [text |-> "<article data-id=\"promo\" id=\"hero\">H</article>", ids |-> {"hero"}]

Blocks ==
    {ArticlePromo, ArticlePromo1, StylePromo, StylePromo1, NoscriptPromo,
     Paragraph, ArticleNested, ArticleDataId}

BlockSeqs == UNION {[1..len -> Blocks] : len \in 0..MaxBlocks}

\* the slot lists read from removeSlot.txt
SlotLists ==
    {<<>>, <<"promo">>, <<"promo1">>, <<"promo", "promo1">>, <<"outer">>,
     <<"promo.">>, <<"x">>}

RECURSIVE Join(_)
\* the document made of the blocks bs
Join(bs) == IF bs = <<>> THEN "" ELSE Head(bs).text \o Join(Tail(bs))

SlotsInit ==
    /\ pc = "remove_slots"
    /\ \E bs \in BlockSeqs :
          /\ blocks = bs
          /\ html_content = Join(bs)
    /\ slot_ids \in SlotLists
    /\ n = 0
    /\ heap = NoHeap /\ source_json = 0 /\ translations = 0
    /\ english_text = NaN /\ match = None /\ row = NoRow /\ key = None
    /\ updated_count = 0 /\ input_table = <<>> /\ matched = {}
    /\ fs = [f \in {"excel", "image", "index", "html", "tagging", "removeSlot",
                    "region"} |-> Unknown]
    /\ export = NoDir /\ export_before = NoDir
    /\ region = None /\ tagging_data = <<>> /\ index_data = NoJson
    /\ skip_translations = FALSE /\ new_image_path = ""
    /\ merger_called = FALSE /\ log = <<>>

slotsUnchanged ==
    <<heap, source_json, translations, english_text, match, row, key,
      updated_count, input_table, matched, blocks, fs, export, export_before,
      slot_ids, region, tagging_data, index_data, skip_translations,
      new_image_path, merger_called, log>>

\* `if not slot_ids: return html_content`
ReturnUnchanged ==
    /\ pc = "remove_slots"
    /\ slot_ids = <<>>
    /\ pc' = "removed"
    /\ UNCHANGED <<html_content, n, slotsUnchanged>>

\* one iteration of `for slot_id in slot_ids`
RemoveOneSlot ==
    /\ pc = "remove_slots"
    /\ n < Len(slot_ids)
    /\ html_content' = RemoveSlot(html_content, slot_ids[n + 1])
    /\ n' = n + 1
    /\ UNCHANGED <<pc, slotsUnchanged>>

\* `return html_content` after the loop
ReturnFiltered ==
    /\ pc = "remove_slots"
    /\ slot_ids # <<>>
    /\ n = Len(slot_ids)
    /\ pc' = "removed"
    /\ UNCHANGED <<html_content, n, slotsUnchanged>>

SlotsNext == ReturnUnchanged \/ RemoveOneSlot \/ ReturnFiltered

SpecSlots == SlotsInit /\ [][SlotsNext]_vars

\* the elements of a list
Range(seq) == {seq[i] : i \in 1..Len(seq)}

\* the blocks of bs that belong to none of the ids
BlocksKept(bs, ids) ==
    LET Keep(b) == b.ids \cap Range(ids) = {}
    IN  SelectSeq(bs, Keep)

\* C6: remove_slots removes the whole block of each slot id, through its
\* closing tag, and nothing that belongs to a different id; the rest of the
\* markup is unchanged, and with no slot ids the document is unchanged.
C6_OnlyBlocksOfTheSlotIds ==
    pc = "removed" => html_content = Join(BlocksKept(blocks, slot_ids))

(***************************************************************************)
(* main                                                                    *)
(***************************************************************************)

\* entries of a slotOrder
MaxOrder == 2

SlotNames == {"promo", "promo1", ""}

SlotOrders == UNION {[1..len -> SlotNames] : len \in 0..MaxOrder}

\* exportCode before the run: missing, empty, or left by an earlier run
PreviousRun ==
    [EmptyDir EXCEPT !.index_html = <<"<p>old</p>">>,
                     !.index_json = <<JsonObject(<<[k |-> "old", v |-> StrVal("Old")]>>)>>]

ExportStates == {NoDir, EmptyDir, PreviousRun}

\* sourceCode/index.html
MainBlockSeqs == {<<ArticlePromo, Paragraph>>, <<StylePromo, ArticlePromo1>>}

\* sourceCode/removeSlot.txt: missing, or its lines
RemoveSlotFiles ==
    {Absent, Read(<<"promo">>), Read(<<" promo ", "", "promo1">>), Read(<<"nosuch">>)}

\* sourceCode/region.txt: missing, or its text
RegionFiles ==
    {Absent, Read(""), Read("SEA-01\n"), Read("AU"), Read("US"), Read("sea-01")}

\* sourceCode/tagging.json: missing, or what the repair pass and json.loads
\* make of it: a parse error, or the manifest
TaggingFiles ==
    {Absent, Read([ok |-> FALSE, data |-> <<>>]),
     Read([ok |-> TRUE, data |-> <<[k |-> "prefix", v |-> StrVal("XX")]>>])}
    \cup {Read([ok |-> TRUE,
                data |-> <<[k |-> "slotOrder", v |-> ListVal(o)],
                           [k |-> "prefix", v |-> StrVal("XX")]>>]) : o \in SlotOrders}

MainTable ==
    << [k |-> "greet", v |-> StrVal("Hi&nbsp;there")],
       [k |-> "title", v |-> StrVal("Hello")] >>

\* sourceCode/index.json, which exists: what json.load makes of it
IndexFiles ==
    {Read(Malformed), Read(JsonArray), Read(JsonObject(MainTable))}
    \cup {Read(JsonObject(Append(MainTable, [k |-> "slotOrder", v |-> ListVal(o)]))) :
            o \in SlotOrders}

\* new_image_path.txt, which exists
ImageFiles == {Read(""), Read("img/new\n")}

\* TB.xlsx, which exists: unreadable, or its first two columns
ExcelFiles ==
    {Read([ok |-> FALSE, sheet |-> <<>>]),
     Read([ok |-> TRUE,
           sheet |-> << [English |-> Cell(" Hi there "),
                         Translation |-> Cell("Bonjour le monde")],
                        [English |-> NaN, Translation |-> Cell("x")],
                        [English |-> Cell("hello"), Translation |-> NaN] >>])}

Required == {"excel", "image", "index", "html"}

MainInit ==
    /\ pc = "main"
    /\ fs \in [{"excel", "image", "index", "html", "tagging", "removeSlot", "region"}
                 -> {Absent, Unread, Unknown}]
    /\ \A f \in DOMAIN fs : fs[f] = Unknown <=> f \notin Required
    /\ export_before \in ExportStates
    /\ export = export_before
    /\ blocks = <<>> /\ html_content = "" /\ slot_ids = <<>> /\ region = None
    /\ tagging_data = <<>> /\ index_data = NoJson
    /\ skip_translations = FALSE /\ new_image_path = ""
    /\ merger_called = FALSE /\ log = <<>>
    /\ MergeIdle

\* export_dir.mkdir(exist_ok=True), then every file of exportCode is unlinked
Cleanup ==
    /\ pc = "main"
    /\ export' = EmptyDir
    /\ pc' = "check"
    /\ UNCHANGED <<mergeVars, blocks, fs, export_before, html_content, slot_ids,
                   region, tagging_data, index_data, skip_translations,
                   new_image_path, merger_called, log>>

\* the four `if not ...exists()` checks
CheckRequiredFiles ==
    /\ pc = "check"
    /\ LET missing(f) == fs[f] = Absent
       IN  IF missing("excel")
           THEN log' = Append(log, "Error: Excel file not found") /\ pc' = "returned"
           ELSE IF missing("image")
           THEN log' = Append(log, "Error: Image path file not found") /\ pc' = "returned"
           ELSE IF missing("index")
           THEN log' = Append(log, "Error: Source JSON file not found") /\ pc' = "returned"
           ELSE IF missing("html")
           THEN log' = Append(log, "Error: HTML file not found") /\ pc' = "returned"
           ELSE log' = log /\ pc' = "read_html"
    /\ export_before' = IF \E f \in Required : fs[f] = Absent
                        THEN export_before
                        ELSE NoDir
    /\ UNCHANGED <<mergeVars, blocks, fs, export, html_content, slot_ids, region,
                   tagging_data, index_data, skip_translations, new_image_path,
                   merger_called>>

\* html_content = f.read()
ReadHtml ==
    /\ pc = "read_html"
    /\ \E bs \in MainBlockSeqs :
          /\ blocks' = bs
          /\ html_content' = Join(bs)
          /\ fs' = [fs EXCEPT !["html"] = Read(Join(bs))]
    /\ pc' = "read_slots"
    /\ UNCHANGED <<mergeVars, export, export_before, slot_ids, region, tagging_data,
                   index_data, skip_translations, new_image_path, merger_called, log>>

RECURSIVE StrippedLines(_)
\* [line.strip() for line in f if line.strip()]
StrippedLines(lines) ==
    IF lines = <<>> THEN <<>>
    ELSE IF Strip(Head(lines)) = "" THEN StrippedLines(Tail(lines))
    ELSE <<Strip(Head(lines))>> \o StrippedLines(Tail(lines))

read_remove_slots(file) ==
    IF file = Absent THEN <<>> ELSE StrippedLines(file.content[1])

\* slot_ids = read_remove_slots(); if slot_ids: html_content = remove_slots(...)
ReadRemoveSlots ==
    /\ pc = "read_slots"
    /\ \E file \in RemoveSlotFiles :
          /\ fs' = [fs EXCEPT !["removeSlot"] = file]
          /\ slot_ids' = read_remove_slots(file)
          /\ html_content' = IF slot_ids' # <<>>
                             THEN remove_slots(html_content, slot_ids')
                             ELSE html_content
    /\ pc' = "read_region"
    /\ UNCHANGED <<mergeVars, blocks, export, export_before, region, tagging_data,
                   index_data, skip_translations, new_image_path, merger_called, log>>

\* region = None; if region_path.exists(): region = f.read().strip()
ReadRegion ==
    /\ pc = "read_region"
    /\ \E file \in RegionFiles :
          /\ fs' = [fs EXCEPT !["region"] = file]
          /\ region' = IF file = Absent THEN None ELSE Some(Strip(file.content[1]))
    /\ pc' = "tagging"
    /\ UNCHANGED <<mergeVars, blocks, export, export_before, html_content, slot_ids,
                   tagging_data, index_data, skip_translations, new_image_path,
                   merger_called, log>>

\* the manifest main writes: the prefix set, the slotOrder filtered when there
\* are slot ids to remove
PatchedManifest(manifest, reg, ids) ==
    LET m == DictSet(manifest, "prefix", StrVal(reg))
    IN  IF HasKey(m, "slotOrder") /\ ids # <<>>
        THEN DictSet(m, "slotOrder",
                     ListVal(FilterSlotOrder(DictGet(m, "slotOrder").list, ids)))
        ELSE m

\* `if region and tagging_path.exists():` the manifest is repaired, parsed
\* (json.loads stands in no try block), patched and written to exportCode
UpdateTagging ==
    /\ pc = "tagging"
    /\ IF Truthy(region)
       THEN \E file \in TaggingFiles :
              /\ fs' = [fs EXCEPT !["tagging"] = file]
              /\ IF file = Absent
                 THEN pc' = "copy_index" /\ UNCHANGED <<tagging_data, export>>
                 ELSE IF ~file.content[1].ok
                 THEN pc' = "raised" /\ UNCHANGED <<tagging_data, export>>
                 ELSE /\ tagging_data' =
                            PatchedManifest(file.content[1].data, region[1], slot_ids)
                      /\ export' = [export EXCEPT !.tagging_json = <<tagging_data'>>]
                      /\ pc' = "copy_index"
       ELSE pc' = "copy_index" /\ UNCHANGED <<fs, tagging_data, export>>
    /\ UNCHANGED <<mergeVars, blocks, export_before, html_content, slot_ids, region,
                   index_data, skip_translations, new_image_path, merger_called, log>>

\* index_data after `if slot_ids and 'slotOrder' in index_data:`
FilteredIndex(json, ids) ==
    IF ids # <<>> /\ json.kind = "object" /\ HasKey(json.data, "slotOrder")
    THEN JsonObject(DictSet(json.data, "slotOrder",
             ListVal(FilterSlotOrder(DictGet(json.data, "slotOrder").list, ids))))
    ELSE json

\* the try block that copies index.json to exportCode
CopyIndexJson ==
    /\ pc = "copy_index"
    /\ \E file \in IndexFiles :
          /\ fs' = [fs EXCEPT !["index"] = file]
          /\ IF file.content[1] = Malformed
             THEN /\ log' = Append(log, "Error copying index.json")
                  /\ UNCHANGED <<index_data, export>>
             ELSE /\ index_data' = FilteredIndex(file.content[1], slot_ids)
                  /\ export' = [export EXCEPT !.index_json = <<index_data'>>]
                  /\ log' = log
    /\ pc' = "read_image"
    /\ UNCHANGED <<mergeVars, blocks, export_before, html_content, slot_ids, region,
                   tagging_data, skip_translations, new_image_path, merger_called>>

\* a faulty variant of SkipsTranslations: only the SEA prefix is looked for
SkipsTranslationsSeaOnly(reg) == Truthy(reg) /\ StartsWith(reg[1], "SEA")

\* region and region.startswith(('SEA', 'AU'))
SkipsTranslations(reg) ==
    Truthy(reg) /\ (StartsWith(reg[1], "SEA") \/ StartsWith(reg[1], "AU"))

\* skip_translations is set and new_image_path.txt is read
ReadImagePath ==
    /\ pc = "read_image"
    /\ skip_translations' = SkipsTranslations(region)
    /\ \E file \in ImageFiles :
          /\ fs' = [fs EXCEPT !["image"] = file]
          /\ new_image_path' = Strip(file.content[1])
          /\ IF new_image_path' = ""
             THEN /\ log' = Append(log, "Error: Empty image path found in text file")
                  /\ pc' = "returned"
             ELSE log' = log /\ pc' = "load"
    /\ UNCHANGED <<mergeVars, blocks, export, export_before, html_content, slot_ids,
                   region, tagging_data, index_data, merger_called>>

\* source_json = load_source_json(...); if source_json is None: return
LoadSourceJson ==
    /\ pc = "load"
    /\ IF fs["index"].content[1].kind = "object"
       THEN /\ heap' = [heap EXCEPT ![1] = fs["index"].content[1].data]
            /\ source_json' = 1
            /\ log' = log
            /\ pc' = "translate"
       ELSE /\ log' = Append(log, "Error reading source JSON file")
            /\ pc' = "returned"
            /\ UNCHANGED <<heap, source_json>>
    /\ UNCHANGED <<translations, english_text, match, row, key, updated_count, n,
                   input_table, matched, blocks, fs, export, export_before,
                   html_content, slot_ids, region, tagging_data, index_data,
                   skip_translations, new_image_path, merger_called>>

\* `if not skip_translations:` read the sheet, merge, save translations.json
Translate ==
    /\ pc = "translate"
    /\ IF skip_translations
       THEN UNCHANGED <<heap, translations, fs, export, merger_called, log>>
       ELSE \E file \in ExcelFiles :
              /\ fs' = [fs EXCEPT !["excel"] = file]
              /\ IF file.content[1].ok
                 THEN /\ translations' = CopyTarget(source_json)
                      /\ heap' = [heap EXCEPT ![translations'] =
                                    process_translations(
                                        read_excel_file(file.content[1].sheet),
                                        heap[source_json])]
                      /\ export' = [export EXCEPT
                                      !.translations_json = <<heap'[translations']>>]
                      /\ merger_called' = TRUE
                      /\ log' = log
                 ELSE /\ log' = Append(log, "Error reading Excel file")
                      /\ UNCHANGED <<heap, translations, export, merger_called>>
    /\ pc' = "write_html"
    /\ UNCHANGED <<source_json, english_text, match, row, key, updated_count, n,
                   input_table, matched, blocks, export_before, html_content,
                   slot_ids, region, tagging_data, index_data, skip_translations,
                   new_image_path>>

\* the HTML is written to exportCode/index.html and main returns
WriteHtml ==
    /\ pc = "write_html"
    /\ export' = [export EXCEPT !.index_html = <<html_content>>]
    /\ pc' = "returned"
    /\ UNCHANGED <<mergeVars, blocks, fs, export_before, html_content, slot_ids,
                   region, tagging_data, index_data, skip_translations,
                   new_image_path, merger_called, log>>

Next ==
    \/ Cleanup \/ CheckRequiredFiles \/ ReadHtml \/ ReadRemoveSlots \/ ReadRegion
    \/ UpdateTagging \/ CopyIndexJson \/ ReadImagePath \/ LoadSourceJson
    \/ Translate \/ WriteHtml

Spec == MainInit /\ [][Next]_vars

(***************************************************************************)
(* Properties of the matcher and the merger                                *)
(***************************************************************************)

\* the entries of d whose normalized string value equals the normalized text
ExactMatches(d, text) ==
    {i \in 1..Len(d) : /\ IsStr(d[i].v)
                       /\ NormalizeValue(d[i].v.str) = NormalizeEnglish(text)}

\* the same, compared in lower case
CaseInsensitiveMatches(d, text) ==
    {i \in 1..Len(d) : /\ IsStr(d[i].v)
                       /\ Lower(NormalizeValue(d[i].v.str)) = Lower(NormalizeEnglish(text))}

\* a cell that is empty or holds a placeholder phrase
InertText(c) ==
    \/ IsNa(c)
    \/ Strip(c.s) = ""
    \/ Lower(Strip(c.s)) \in {"[video]", "enter copy", "content/copy en"}

InertRow(r) ==
    \/ InertText(r.English)
    \/ IsNa(r.Translation)
    \/ Strip(r.Translation.s) = ""

\* C4: process_translations returns a table with the key set of the input
\* table, in which every key that no iterated row resolved to keeps its input
\* value, and the input table object is not modified.
C4_UntouchedKeysSurvive ==
    pc \in {"loop", "done"} =>
        LET out == heap[translations]
        IN  /\ Len(out) = Len(input_table)
            /\ Keys(out) = Keys(input_table)
            /\ \A k \in Keys(input_table) \ matched :
                    DictGet(out, k) = DictGet(input_table, k)
            /\ heap[source_json] = input_table

\* a returned table with one key updated and another one left alone
C4_Witness ==
    /\ pc = "done"
    /\ updated_count > 0
    /\ \E k \in matched : DictGet(heap[translations], k) # DictGet(input_table, k)
    /\ Keys(input_table) \ matched # {}

\* C5: find_matching_key returns no match for an empty or placeholder text
\* whatever the table holds, and an iteration over a row with an empty
\* sourceText, an empty translatedText or a placeholder sourceText changes no
\* value of the table.
C5_InertRows ==
    /\ [](pc = "matched" /\ InertText(english_text) => match = None)
    /\ [][(pc = "loop" /\ n' = n + 1 /\ InertRow(row'))
             => heap'[translations] = heap[translations]]_vars

\* a placeholder row with a translation, iterated over a table that holds the
\* placeholder phrase as a value
C5_Witness ==
    /\ pc = "loop" /\ n > 0
    /\ Lower(row.English.s) = "[video]"
    /\ row.Translation = Cell("Bonjour")
    /\ \E i \in 1..Len(input_table) : Lower(input_table[i].v.str) = "[video]"
    /\ heap[translations] = input_table

\* C8: the exact pass is tried over the whole table before the
\* case-insensitive pass: the result is the first exact match in dict order if
\* there is one, else the first case-insensitive match, else no match.
C8_ExactPassFirst ==
    (pc = "matched" /\ ~InertText(english_text)) =>
        LET d  == heap[source_json]
            t  == Strip(english_text.s)
            E  == ExactMatches(d, t)
            CI == CaseInsensitiveMatches(d, t)
        IN  IF E # {} THEN match = Some(d[MinIndex(E)].k)
            ELSE IF CI # {} THEN match = Some(d[MinIndex(CI)].k)
            ELSE match = None

\* an exact match found behind an earlier key that matches only in lower case
C8_Witness ==
    /\ pc = "matched" /\ ~InertText(english_text)
    /\ LET d  == heap[source_json]
           t  == Strip(english_text.s)
           E  == ExactMatches(d, t)
           CI == CaseInsensitiveMatches(d, t)
       IN  /\ E # {}
           /\ MinIndex(CI) < MinIndex(E)
           /\ match = Some(d[MinIndex(E)].k)

\* the normalization of section 4.1: &nbsp; replaced by a space, span markers
\* stripped, on either side
BothSidesNormalized(s) == StripSpan(Replace(s, "&nbsp;", " "))

\* C9: both the table value and the sourceText have &nbsp; replaced by a space
\* and their span markers stripped, so a sourceText whose normalized form
\* equals the normalized form of some string value is matched to a key.
C9_SameNormalizationBothSides ==
    (pc = "matched" /\ ~InertText(english_text)) =>
        LET d == heap[source_json]
            t == Strip(english_text.s)
        IN  (\E i \in 1..Len(d) :
                /\ IsStr(d[i].v)
                /\ BothSidesNormalized(d[i].v.str) = BothSidesNormalized(t))
            => match # None

\* C10: the value stored for a row resolved to a key is the row's
\* translatedText, with every space replaced by &nbsp; exactly when the value
\* of that key in the input table contains &nbsp;, whatever earlier rows have
\* stored at that key.
C10_EncodingFromOriginal ==
    (/\ pc \in {"loop", "done"} /\ n > 0
     /\ ~IsNa(row.English) /\ ~IsNa(row.Translation)
     /\ row.English.s # "" /\ row.Translation.s # ""
     /\ Lower(row.Translation.s) # "nan"
     /\ key # None /\ key # Some(""))
    => DictGet(heap[translations], key[1]) =
         StrVal(IF Contains(DictGet(input_table, key[1]).str, "&nbsp;")
                THEN Replace(row.Translation.s, " ", "&nbsp;")
                ELSE row.Translation.s)

\* a second row stored, entity-encoded, at a key an earlier row has already
\* overwritten
C10_Witness ==
    /\ pc = "loop" /\ n = 2 /\ updated_count = 2
    /\ matched = {"greet"} /\ key = Some("greet")
    /\ row.Translation = Cell("Bonjour le monde")
    /\ DictGet(heap[translations], "greet") = StrVal("Bonjour&nbsp;le&nbsp;monde")

(***************************************************************************)
(* Properties of main                                                      *)
(***************************************************************************)

\* the run is over: main returned, or an exception left it
Ended == pc \in {"returned", "raised"}

\* the files of an exportCode directory
FilesOf(dir) ==
    <<dir.index_html, dir.index_json, dir.tagging_json, dir.translations_json>>

\* C1: a run with a required input file missing stops with a diagnostic and
\* leaves the files of exportCode and their contents as they were before.
C1_AbortLeavesExportUntouched ==
    (Ended /\ \E f \in Required : fs[f] = Absent) =>
        /\ pc = "returned"
        /\ log # <<>>
        /\ FilesOf(export) = FilesOf(export_before)

\* C7: no failure leaves main as an exception: every run ends by a return.
C7_MainNeverRaises == pc # "raised"

\* the input files, as far as the run got to read them
RegionSkips ==
    /\ fs["region"].content # <<>>
    /\ LET r == Strip(fs["region"].content[1])
       IN  StartsWith(r, "SEA") \/ StartsWith(r, "AU")

TaggingParses == fs["tagging"].content # <<>> /\ fs["tagging"].content[1].ok

TaggingMalformed == fs["tagging"].content # <<>> /\ ~fs["tagging"].content[1].ok

IndexParses ==
    fs["index"].content # <<>> /\ fs["index"].content[1].kind \in {"array", "object"}

IndexIsObject == fs["index"].content # <<>> /\ fs["index"].content[1].kind = "object"

ImagePathGiven == fs["image"].content # <<>> /\ Strip(fs["image"].content[1]) # ""

ExcelReadable == fs["excel"].content # <<>> /\ fs["excel"].content[1].ok

AllRequiredPresent == \A f \in Required : fs[f] # Absent

RECURSIVE Survivors(_, _)
\* order without its empty entries and without the entries in the set removed
Survivors(order, removed) ==
    IF order = <<>> THEN <<>>
    ELSE IF Head(order) = "" \/ Head(order) \in removed
         THEN Survivors(Tail(order), removed)
         ELSE <<Head(order)>> \o Survivors(Tail(order), removed)

\* the slotOrder of a dict, or <<>> when it has none
SlotOrderOf(d) == IF HasKey(d, "slotOrder") THEN DictGet(d, "slotOrder").list ELSE <<>>

\* a written slotOrder is the input one without empty and removed entries
CleanOrder(written, input) ==
    /\ \A i \in 1..Len(written) : written[i] # "" /\ written[i] \notin Range(slot_ids)
    /\ written = Survivors(input, Range(slot_ids))

\* files this run has written (Cleanup has removed the earlier ones)
TaggingWritten == pc # "main" /\ export.tagging_json # <<>>

IndexObjectWritten ==
    pc # "main" /\ export.index_json # <<>> /\ export.index_json[1].kind = "object"

====
